---- MODULE Spec2Model ----
(***************************************************************************)
(* Authenticated HTTP access layer of ceph-mcp-server:                     *)
(*   CephTokenManager  (src/src/ceph_mcp/api/base.py, lines 42-167)        *)
(*   BaseCephClient._make_request (same file, lines 204-312)               *)
(*   CephClient.__aenter__/__aexit__ (src/src/ceph_mcp/api/client.py)      *)
(* Time is counted in seconds.  One step of a task runs from one await to  *)
(* the next: the login POST, the resource request and asyncio.sleep are    *)
(* the only suspension points.                                             *)
(***************************************************************************)
EXTENDS Integers, Sequences, FiniteSets, TLC

\* ---------------------------------------------------------------- bounds
MaxTicks == 2
MaxRetriesBound == 3

\* ------------------------------------------------------ program constants
RefreshBuffer == 300
DefaultTtl == 28800
NoExpiry == -1
NoTtl == -1

\* -------------------------------------------------------- input alphabets
Procs == {1, 2}
Deltas == {50, 28500}
TokenFields == {"None", "", "t1", "t2"}
TtlFields == {NoTtl, 0, 60, 300, 350}
ResourceStatuses == {200, 204, 302, 400, 401, 403, 404, 500, 503}
NetErrors == {"ConnectError", "ReadTimeout"}
ConcRetries == {2}
Endpoints == {"health", "host", "daemon", "osd", "pool", "cephfs"}

\* responses of POST /api/auth: a transport error, 201 with a JSON body
\* (token and ttl fields present or absent), another status with a JSON body
\* (with or without a detail field), or a status with a body that is not JSON
LoginResponses ==
     [net : {TRUE}, status : {0}, parses : {FALSE}, token : {"None"},
      ttl : {NoTtl}, detail : {FALSE}, err : {"ConnectError"}]
  \cup [net : {FALSE}, status : {201}, parses : {TRUE}, token : {"t1", "t2"},
      ttl : TtlFields, detail : {FALSE}, err : {"None"}]
  \cup [net : {FALSE}, status : {201}, parses : {TRUE}, token : {"None", ""},
      ttl : {NoTtl}, detail : {FALSE}, err : {"None"}]
  \cup [net : {FALSE}, status : {200, 204}, parses : {TRUE}, token : {"t1"},
      ttl : {NoTtl}, detail : {FALSE}, err : {"None"}]
  \cup [net : {FALSE}, status : {400, 401}, parses : {TRUE}, token : {"None"},
      ttl : {NoTtl}, detail : {FALSE}, err : {"None"}]
  \cup [net : {FALSE}, status : {500}, parses : {TRUE}, token : {"None"},
      ttl : {NoTtl}, detail : BOOLEAN, err : {"None"}]
  \cup [net : {FALSE}, status : {201, 500}, parses : {FALSE}, token : {"None"},
      ttl : {NoTtl}, detail : {FALSE}, err : {"None"}]

\* responses of a resource request
ResourceResponses ==
     [net : {TRUE}, status : {0}, parses : {FALSE}, err : NetErrors]
  \cup [net : {FALSE}, status : ResourceStatuses, parses : {TRUE}, err : {"None"}]
  \cup [net : {FALSE}, status : {200}, parses : {FALSE}, err : {"None"}]

\* the responses drawn when two tasks run concurrently
ConcLoginResponses ==
  {r \in LoginResponses :
     \/ r.net
     \/ r.status = 201 /\ r.parses /\ r.token = "t1" /\ r.ttl = NoTtl
     \/ r.status = 201 /\ r.parses /\ r.token = "t2" /\ r.ttl = 60
     \/ r.status = 201 /\ r.parses /\ r.token = "None"
     \/ r.status = 401}

ConcResourceResponses ==
  {r \in ResourceResponses :
     \/ r.net /\ r.err = "ConnectError"
     \/ r.status \in {200, 302, 401, 403, 404, 500} /\ r.parses}

\* placeholders for "no response received yet"
NoLogin ==
  [net |-> FALSE, status |-> 0, parses |-> FALSE, token |-> "None",
   ttl |-> NoTtl, detail |-> FALSE, err |-> "None"]

NoResponse == [net |-> FALSE, status |-> 0, parses |-> FALSE, err |-> "None"]

\* now, ticks    the clock read by datetime.now() and the number of advances
\* token, expiresAt   CephTokenManager.token and .token_expires_at
\* maxRetries    settings.max_retries
\* ctx, session  where the CephClient context stands, and its shared session
\* enterOutcome  the exception that left __aenter__, if any
\* tasks         the cooperative tasks that dispatch through the shared manager
\* task[p]       the _make_request call of task p: its position (pc), the
\*               loop variable, and what it has sent, received and slept
\* clients[e]    whether endpoint client e references the shared session and
\*               the shared token manager (FALSE stands for None)
\* issuedAt      when the login that set expiresAt was answered
\* lastAuth      how the latest _authenticate of the manager ended
\* enterLogins   the logins started by the latest __aenter__
\* hdrCall       the result of the latest direct get_auth_headers call
\* enterResponse the answer that made the login of the latest __aenter__ fail
\* hreq          a handle_request call: what _handle_operation raised or
\*               returned, and the response handle_request gave
VARIABLES now, ticks, token, expiresAt, maxRetries, ctx, session, enterOutcome,
          tasks, task, clients, issuedAt, lastAuth, enterLogins, hdrCall,
          enterResponse, hreq

vars == <<now, ticks, token, expiresAt, maxRetries, ctx, session, enterOutcome,
          tasks, task, clients, issuedAt, lastAuth, enterLogins, hdrCall,
          enterResponse, hreq>>

\* ------------------------------------------------------------ exceptions
NoError ==
  [cls |-> "None", kind |-> "None", status |-> 0, detail |-> FALSE,
   endpoint |-> FALSE, cause |-> "None"]

Payload == [NoError EXCEPT !.kind = "Payload", !.status = 200]

CephAPIError(kind, status) ==
  [NoError EXCEPT !.cls = "CephAPIError", !.kind = kind, !.status = status]

CephAuthenticationError(kind) ==
  [NoError EXCEPT !.cls = "CephAuthenticationError", !.kind = kind]

\* response.json() on a body that is not JSON raises json.JSONDecodeError,
\* a ValueError that is neither an httpx.HTTPError nor a CephAPIError
JSONDecodeError == [NoError EXCEPT !.cls = "JSONDecodeError", !.kind = "JSONDecodeError"]

\* Python truthiness of `self.token`: None and "" are falsy
Truthy(tok) == tok \notin {"None", ""}

\* --------------------------------------------------------- token manager
\* variants of _token_needs_refresh with the comparison changed
token_needs_refresh_strict(tok, exp, t) ==
  IF ~Truthy(tok) \/ exp = NoExpiry
    THEN TRUE
    ELSE t > exp - RefreshBuffer

token_needs_refresh_late(tok, exp, t) ==
  IF ~Truthy(tok) \/ exp = NoExpiry
    THEN TRUE
    ELSE t >= exp

token_needs_refresh_past_expiry(tok, exp, t) ==
  IF ~Truthy(tok) \/ exp = NoExpiry
    THEN TRUE
    ELSE t > exp

token_needs_refresh_inverted(tok, exp, t) ==
  IF ~Truthy(tok) \/ exp = NoExpiry
    THEN TRUE
    ELSE t <= exp - RefreshBuffer

\* _token_needs_refresh
token_needs_refresh(tok, exp, t) ==
  IF ~Truthy(tok) \/ exp = NoExpiry
    THEN TRUE
    ELSE t >= exp - RefreshBuffer

\* the part of _authenticate that runs once the POST has completed with r;
\* yields the manager's fields afterwards and the exception raised, if any
\* variant accepting every 2xx status
login_succeeded_any2xx(status) == status >= 200 /\ status < 300

\* the status test of the success branch of _authenticate
login_succeeded(status) == status = 201

\* variant that ignores the ttl of the response
expires_in_ignoring_ttl(r) == DefaultTtl

\* expires_in = auth_data.get("ttl", 28800)
expires_in(r) == IF r.ttl = NoTtl THEN DefaultTtl ELSE r.ttl

\* variant of the failure paths that stamps a new expiry before raising
auth_failed_stamping(tok, exp, t, e) ==
  [token |-> tok, expiresAt |-> t + DefaultTtl, err |-> e]

\* the failure paths of _authenticate that raise without assigning
auth_failed(tok, exp, t, e) == [token |-> tok, expiresAt |-> exp, err |-> e]

\* variant that never moves the stored expiry backwards
auth_succeeded_keeping_later_expiry(tok, exp, t, r) ==
  [token |-> r.token,
   expiresAt |-> IF exp > t + expires_in(r) THEN exp ELSE t + expires_in(r),
   err |-> NoError]

\* the 201 branch once a token has been received: token and expiry are
\* assigned one after the other with no await in between
auth_succeeded(tok, exp, t, r) ==
  [token |-> r.token, expiresAt |-> t + expires_in(r), err |-> NoError]

authenticate(tok, exp, t, r) ==
  IF r.net
    THEN auth_failed(tok, exp, t,
           [CephAuthenticationError("NetworkError") EXCEPT !.cause = r.err])
  ELSE IF login_succeeded(r.status)
    THEN IF ~r.parses
           THEN auth_failed(tok, exp, t, JSONDecodeError)
         ELSE IF ~Truthy(r.token)
           THEN [token |-> r.token, expiresAt |-> exp,
                 err |-> CephAuthenticationError("NoTokenReceived")]
         ELSE auth_succeeded(tok, exp, t, r)
  ELSE IF r.status = 400
    THEN auth_failed(tok, exp, t, CephAuthenticationError("InvalidCredentials"))
  ELSE IF r.status = 401
    THEN auth_failed(tok, exp, t, CephAuthenticationError("CheckUsernamePassword"))
  ELSE IF ~r.parses
    THEN auth_failed(tok, exp, t, JSONDecodeError)
  ELSE auth_failed(tok, exp, t,
         [CephAuthenticationError("StatusFailure")
            EXCEPT !.status = r.status, !.detail = r.detail])

NoHeaders == [Authorization |-> "", ContentType |-> "", UserAgent |-> ""]

NoHeadersCall == [called |-> FALSE, err |-> NoError, headers |-> NoHeaders]

\* variant without the check for a missing token
auth_headers_unchecked(tok) ==
  [called |-> TRUE, err |-> NoError,
   headers |-> [Authorization |-> "Bearer " \o tok,
                ContentType |-> "application/json",
                UserAgent |-> "ceph-storage-assistant/version"]]

\* get_auth_headers as a function of the stored token
auth_headers(tok) ==
  IF ~Truthy(tok)
    THEN [called |-> TRUE, err |-> CephAuthenticationError("NoTokenAvailable"),
          headers |-> NoHeaders]
    ELSE [called |-> TRUE, err |-> NoError,
          headers |-> [Authorization |-> "Bearer " \o tok,
                       ContentType |-> "application/json",
                       UserAgent |-> "ceph-storage-assistant/version"]]

\* ------------------------------------------------------------ dispatcher
IdleTask ==
  [pc |-> "idle", attempt |-> 0, sleeps |-> <<>>, nreq |-> 0,
   only5xx |-> TRUE, onlyNet |-> TRUE, last |-> NoResponse,
   login |-> NoLogin, gtAuthCalls |-> 0, gtReturned |-> "None", hdrToken |-> "None",
   outcome |-> NoError]

Raise(rec, e) == [rec EXCEPT !.pc = "done", !.outcome = e]

\* get_auth_headers followed by session.request (suspends on the request)
get_auth_headers(rec, tok) ==
  LET h == auth_headers(tok)
  IN  IF h.err # NoError
        THEN Raise(rec, h.err)
        ELSE [rec EXCEPT !.pc = "request", !.hdrToken = tok, !.nreq = @ + 1]

\* variant whose headers are built from the token stored when the step began
get_token_return_stale_headers(rec, tok) ==
  IF ~Truthy(tok)
    THEN Raise(rec, CephAuthenticationError("FailedToObtainToken"))
    ELSE get_auth_headers([rec EXCEPT !.gtReturned = tok], token)

\* get_token from its second check on, then the rest of the attempt
get_token_return(rec, tok) ==
  IF ~Truthy(tok)
    THEN Raise(rec, CephAuthenticationError("FailedToObtainToken"))
    ELSE get_auth_headers([rec EXCEPT !.gtReturned = tok], tok)

\* variant that holds the caller back while another task's login is in flight
get_token_serialized(rec, tok, exp, t) ==
  IF token_needs_refresh(tok, exp, t)
    THEN IF \E q \in tasks : task[q].pc = "login"
           THEN rec
           ELSE [rec EXCEPT !.pc = "login", !.gtAuthCalls = 1,
                            !.gtReturned = "None", !.login = NoLogin]
    ELSE get_token_return([rec EXCEPT !.gtAuthCalls = 0, !.login = NoLogin], tok)

\* get_token from its entry: suspends in _authenticate or returns at once
get_token(rec, tok, exp, t) ==
  IF token_needs_refresh(tok, exp, t)
    THEN [rec EXCEPT !.pc = "login", !.gtAuthCalls = 1, !.gtReturned = "None",
                     !.login = NoLogin]
    ELSE get_token_return([rec EXCEPT !.gtAuthCalls = 0, !.login = NoLogin], tok)

\* variant doubling from 2 instead of 1
wait_time_shifted(attempt) == 2 ^ (attempt + 1)

\* wait_time = 2**attempt
wait_time(attempt) == 2 ^ attempt

\* variant retrying on every status from 400 up
is_server_error_from400(status) == status >= 400

\* the test that makes a status transient
is_server_error(status) == status >= 500

\* variant that gives up one attempt early on transport errors
request_error_retry_early(attempt, mr) == attempt < mr - 2

\* variant that also backs off after the last attempt's 5xx
server_error_retry_through_last(attempt, mr) == attempt < mr

\* attempt < settings.max_retries - 1, in the 5xx branch and in the
\* httpx.RequestError handler
server_error_retry(attempt, mr) == attempt < mr - 1

request_error_retry(attempt, mr) == attempt < mr - 1

\* variant that starts the next attempt's request without awaiting the sleep
backoff_not_awaited(rec) ==
  [rec EXCEPT !.attempt = @ + 1, !.pc = "request", !.nreq = @ + 1,
              !.sleeps = Append(@, wait_time(rec.attempt))]

\* wait_time = 2**attempt; await asyncio.sleep(wait_time); continue
backoff(rec) ==
  [rec EXCEPT !.pc = "sleep", !.sleeps = Append(@, wait_time(rec.attempt))]

\* variant in which a failure of get_token is handled like a transport error
get_token_raised_retried(rec, e, mr) ==
  IF request_error_retry(rec.attempt, mr)
    THEN backoff(rec)
    ELSE Raise(rec, e)

\* an exception leaving get_token inside the try block: it is not an
\* httpx.RequestError, so no handler of _make_request catches it
get_token_raised(rec, e, mr) == Raise(rec, e)

\* classification of the resource response r on attempt rec.attempt
make_request_classify(rec, r, mr) ==
  LET logged == [rec EXCEPT !.only5xx = @ /\ ~r.net /\ r.status >= 500,
                              !.onlyNet = @ /\ r.net,
                              !.last = r]
      retry == backoff(logged)
  IN IF r.net
       THEN IF request_error_retry(rec.attempt, mr)
              THEN retry
              ELSE Raise(logged, [CephAPIError("NetworkFailure", 0)
                                    EXCEPT !.cause = r.err])
     ELSE IF r.status = 200
       THEN IF r.parses THEN Raise(logged, Payload)
                        ELSE Raise(logged, JSONDecodeError)
     ELSE IF r.status = 401
       THEN Raise(logged, CephAPIError("Unauthorized", r.status))
     ELSE IF r.status = 403
       THEN Raise(logged, CephAPIError("Forbidden", r.status))
     ELSE IF r.status = 404
       THEN Raise(logged, [CephAPIError("NotFound", r.status)
                             EXCEPT !.endpoint = TRUE])
     ELSE IF is_server_error(r.status)
       THEN IF server_error_retry(rec.attempt, mr)
              THEN retry
              ELSE Raise(logged, CephAPIError("ServerError", r.status))
     ELSE Raise(logged, CephAPIError("Unexpected", r.status))

\* variant whose `continue` restarts the loop at attempt 0
next_attempt_restarting(rec, tok, exp, t, mr) ==
  get_token([rec EXCEPT !.attempt = 0, !.sleeps = <<>>, !.nreq = 0], tok, exp, t)

\* `continue`: the for loop takes its next value of attempt, or is exhausted
\* and control reaches the raise after the loop
next_attempt(rec, tok, exp, t, mr) ==
  IF rec.attempt + 1 < mr
    THEN get_token([rec EXCEPT !.attempt = @ + 1], tok, exp, t)
    ELSE Raise(rec, CephAPIError("RetriesExhausted", 0))

\* variant whose loop body runs once before max_retries is consulted
make_request_at_least_once(rec, injected, tok, exp, t, mr) ==
  IF ~injected
    THEN Raise(rec, CephAPIError("NotInitialized", 0))
    ELSE get_token(rec, tok, exp, t)

\* entry of _make_request up to its first await
make_request(rec, injected, tok, exp, t, mr) ==
  IF ~injected
    THEN Raise(rec, CephAPIError("NotInitialized", 0))
  ELSE IF mr <= 0
    THEN Raise(rec, CephAPIError("RetriesExhausted", 0))
  ELSE get_token(rec, tok, exp, t)

\* `if not self.session or not self.token_manager` of endpoint client e
Injected(e) == clients[e].session /\ clients[e].token_manager

\* variant of the injection loop that leaves one endpoint client out
inject_all_but_cephfs(cs) ==
  [e \in Endpoints |->
     IF e = "cephfs" THEN cs[e] ELSE [session |-> TRUE, token_manager |-> TRUE]]

\* the injection loop of __aenter__
inject(cs) == [e \in Endpoints |-> [session |-> TRUE, token_manager |-> TRUE]]

\* the reset loop of __aexit__
reset(cs) == [e \in Endpoints |-> [session |-> FALSE, token_manager |-> FALSE]]

\* variant in which __aenter__ goes on whatever get_token did
aenter_continues_always(a) == TRUE

\* `await self._shared_token_manager.get_token()` returned: only then does
\* __aenter__ reach the injection loop and `return self`
aenter_continues(a) == a.err = NoError /\ Truthy(a.token)

\* the responses a step may receive under the configuration being run
LoginInputs ==
  IF Cardinality(tasks) = 1 THEN LoginResponses ELSE ConcLoginResponses

ResourceInputs ==
  IF Cardinality(tasks) = 1 THEN ResourceResponses ELSE ConcResourceResponses

\* --------------------------------------------- domain clients and handler
\* the classes an exception of class cls is an instance of
Bases(cls) ==
  CASE cls = "CephAuthenticationError" ->
         {"CephAuthenticationError", "CephAPIError", "Exception"}
    [] cls = "CephAPIError" -> {"CephAPIError", "Exception"}
    [] cls = "JSONDecodeError" -> {"JSONDecodeError", "ValueError", "Exception"}
    [] cls = "ValueError" -> {"ValueError", "Exception"}
    [] cls = "KeyError" -> {"KeyError", "Exception"}
    [] OTHER -> {}

IsInstance(e, cls) == cls \in Bases(e.cls)

\* `except Exception as e: raise CephAPIError(f"Failed to ...: {e}") from e`
\* of get_cluster_health, get_daemon_summary and the other methods that have
\* no `except CephAPIError: raise` clause
domain_method(e) ==
  IF e.cls = "None"
    THEN e
    ELSE [CephAPIError("DomainFailure", 0) EXCEPT !.cause = e.cls]

\* perform_daemon_action: `except CephAPIError: raise` before the blanket
\* handler
perform_daemon_action(e) ==
  IF e.cls = "None" \/ IsInstance(e, "CephAPIError")
    THEN e
    ELSE [CephAPIError("DomainFailure", 0) EXCEPT !.cause = e.cls]

ErrorResponse(code) == [success |-> FALSE, error_code |-> code]

\* variant with the CephAPIError clause ahead of the CephAuthenticationError
\* clause
handle_request_api_first(e, response) ==
  IF e.cls = "None" THEN response
  ELSE IF IsInstance(e, "CephAPIError") THEN ErrorResponse("CEPH_API_ERROR")
  ELSE IF IsInstance(e, "CephAuthenticationError")
    THEN ErrorResponse("AUTHENTICATION_ERROR")
  ELSE IF IsInstance(e, "ValueError") THEN ErrorResponse("VALIDATION_ERROR")
  ELSE ErrorResponse("INTERNAL_ERROR")

\* BaseHandler.handle_request: _handle_operation raised e, or raised nothing
\* and returned response; the except clauses are tried in source order
handle_request(e, response) ==
  IF e.cls = "None" THEN response
  ELSE IF IsInstance(e, "CephAuthenticationError")
    THEN ErrorResponse("AUTHENTICATION_ERROR")
  ELSE IF IsInstance(e, "CephAPIError") THEN ErrorResponse("CEPH_API_ERROR")
  ELSE IF IsInstance(e, "ValueError") THEN ErrorResponse("VALIDATION_ERROR")
  ELSE ErrorResponse("INTERNAL_ERROR")

NoMCPResponse == [success |-> FALSE, error_code |-> "None"]

NoHandlerCall ==
  [pc |-> "none", raised |-> NoError, returned |-> NoMCPResponse,
   response |-> NoMCPResponse]

\* what _handle_operation may raise: the two API error classes with their
\* kinds and statuses, ValueError and its subclass, and another Exception
HandlerErrors ==
  {[NoError EXCEPT !.cls = c, !.kind = k, !.status = st] :
     c \in {"CephAuthenticationError", "CephAPIError", "ValueError",
            "JSONDecodeError", "KeyError"},
     k \in {"FailedToObtainToken", "InvalidCredentials", "Unauthorized",
            "NotFound", "ServerError", "NetworkFailure", "DomainFailure"},
     st \in {0, 401, 404, 500}}

\* what _handle_operation may return
OperationResponses ==
  {[success |-> TRUE, error_code |-> "None"],
   [success |-> FALSE, error_code |-> "UNKNOWN_OPERATION"],
   [success |-> FALSE, error_code |-> "INVALID_PARAMETER"]}

HandlerCalls ==
     {[pc |-> "called", raised |-> e, returned |-> NoMCPResponse,
       response |-> NoMCPResponse] : e \in HandlerErrors}
  \cup {[pc |-> "called", raised |-> NoError, returned |-> r,
       response |-> NoMCPResponse] : r \in OperationResponses}

\* ----------------------------------------------------------------- Init
Init ==
  /\ now = 0
  /\ ticks = 0
  /\ token = "None"
  /\ expiresAt = NoExpiry
  /\ maxRetries \in 0..MaxRetriesBound
  /\ ctx = "new"
  /\ session = "none"
  /\ enterOutcome = NoError
  /\ tasks = {1}
  /\ task = [p \in Procs |-> IdleTask]
  /\ clients = [e \in Endpoints |-> [session |-> FALSE, token_manager |-> FALSE]]
  /\ issuedAt = NoExpiry
  /\ lastAuth = "none"
  /\ enterLogins = 0
  /\ hdrCall = NoHeadersCall
  /\ enterResponse = NoLogin
  /\ hreq = NoHandlerCall

\* -------------------------------------------------------------- actions
Tick ==
  /\ ticks < MaxTicks
  /\ \E d \in Deltas : now' = now + d
  /\ ticks' = ticks + 1
  /\ UNCHANGED <<token, expiresAt, maxRetries, ctx, session, enterOutcome, tasks,
                 task, clients, issuedAt, lastAuth, enterLogins, hdrCall,
                 enterResponse, hreq>>

\* CephClient.__aenter__ up to the await inside get_token
Enter ==
  /\ ctx \in {"new", "exited", "enterFailed"}
  /\ session' = "open"
  /\ token' = "None"
  /\ expiresAt' = NoExpiry
  /\ issuedAt' = NoExpiry
  /\ lastAuth' = "none"
  /\ IF token_needs_refresh("None", NoExpiry, now)
       THEN ctx' = "entering" /\ enterOutcome' = NoError /\ enterLogins' = 1
       ELSE /\ ctx' = "enterFailed"
            /\ enterOutcome' = CephAuthenticationError("FailedToObtainToken")
            /\ enterLogins' = 0
  /\ enterResponse' = NoLogin
  /\ UNCHANGED <<now, ticks, maxRetries, tasks, task, clients, hdrCall, hreq>>

\* the login of __aenter__ completes; on success the references are injected
EnterLogin ==
  /\ ctx = "entering"
  /\ \E r \in LoginInputs :
       LET a == authenticate(token, expiresAt, now, r)
       IN /\ token' = a.token
          /\ expiresAt' = a.expiresAt
          /\ enterResponse' = IF a.err = NoError THEN NoLogin ELSE r
          /\ ctx' = IF aenter_continues(a) THEN "entered" ELSE "enterFailed"
          /\ enterOutcome' =
               IF a.err # NoError THEN a.err
               ELSE IF ~Truthy(a.token)
                 THEN CephAuthenticationError("FailedToObtainToken")
               ELSE NoError
          /\ clients' = IF aenter_continues(a) THEN inject(clients) ELSE clients
          /\ issuedAt' = IF a.err = NoError THEN now ELSE issuedAt
          /\ lastAuth' = IF a.err = NoError THEN "ok" ELSE "failed"
  /\ UNCHANGED <<now, ticks, maxRetries, session, tasks, task, enterLogins,
                 hdrCall, hreq>>

\* CephClient.__aexit__: runs when the body of `async with` has finished,
\* so no dispatch of the body is still in flight
Exit ==
  /\ ctx = "entered"
  /\ \A p \in Procs : task[p].pc \in {"idle", "done"}
  /\ session' = "closed"
  /\ clients' = reset(clients)
  /\ ctx' = "exited"
  /\ UNCHANGED <<now, ticks, token, expiresAt, maxRetries, enterOutcome, tasks,
                 task, issuedAt, lastAuth, enterLogins, hdrCall,
                 enterResponse, hreq>>

\* a domain client calls _make_request
Dispatch(p) ==
  /\ task[p].pc = "idle"
  /\ \E e \in Endpoints :
       task' = [task EXCEPT ![p] =
                  make_request(IdleTask, Injected(e), token, expiresAt, now,
                               maxRetries)]
  /\ UNCHANGED <<now, ticks, token, expiresAt, maxRetries, ctx, session,
                 enterOutcome, tasks, clients, issuedAt, lastAuth, enterLogins,
                 hdrCall,
                 enterResponse, hreq>>

\* the login POST of get_token completes
LoginResponse(p) ==
  /\ task[p].pc = "login"
  /\ \E r \in LoginInputs :
       LET a == authenticate(token, expiresAt, now, r)
       IN /\ token' = a.token
          /\ expiresAt' = a.expiresAt
          /\ task' = [task EXCEPT ![p] =
                        IF a.err = NoError
                          THEN get_token_return([task[p] EXCEPT !.login = r],
                                                a.token)
                          ELSE get_token_raised([task[p] EXCEPT !.login = r],
                                                a.err, maxRetries)]
          /\ issuedAt' = IF a.err = NoError THEN now ELSE issuedAt
          /\ lastAuth' = IF a.err = NoError THEN "ok" ELSE "failed"
  /\ UNCHANGED <<now, ticks, maxRetries, ctx, session, enterOutcome, tasks,
                 clients, enterLogins, hdrCall,
                 enterResponse, hreq>>

\* variant in which a 401 answer makes the dispatcher drop the stored token
ResourceResponse_invalidating(p) ==
  /\ task[p].pc = "request"
  /\ \E r \in ResourceInputs :
       /\ task' = [task EXCEPT ![p] = make_request_classify(task[p], r, maxRetries)]
       /\ token' = IF ~r.net /\ r.status = 401 THEN "None" ELSE token
  /\ UNCHANGED <<now, ticks, expiresAt, maxRetries, ctx, session,
                 enterOutcome, tasks, clients, issuedAt, lastAuth, enterLogins,
                 hdrCall, enterResponse, hreq>>

\* the resource request completes (or fails at transport level)
ResourceResponse(p) ==
  /\ task[p].pc = "request"
  /\ \E r \in ResourceInputs :
       task' = [task EXCEPT ![p] = make_request_classify(task[p], r, maxRetries)]
  /\ UNCHANGED <<now, ticks, token, expiresAt, maxRetries, ctx, session,
                 enterOutcome, tasks, clients, issuedAt, lastAuth, enterLogins,
                 hdrCall,
                 enterResponse, hreq>>

\* asyncio.sleep returns; `continue` starts the next attempt
WakeUp(p) ==
  /\ task[p].pc = "sleep"
  /\ task' = [task EXCEPT ![p] =
                next_attempt(task[p], token, expiresAt, now, maxRetries)]
  /\ UNCHANGED <<now, ticks, token, expiresAt, maxRetries, ctx, session,
                 enterOutcome, tasks, clients, issuedAt, lastAuth, enterLogins,
                 hdrCall,
                 enterResponse, hreq>>

\* the caller has consumed the outcome; the task may dispatch again
Finish(p) ==
  /\ task[p].pc = "done"
  /\ task' = [task EXCEPT ![p] = IdleTask]
  /\ UNCHANGED <<now, ticks, token, expiresAt, maxRetries, ctx, session,
                 enterOutcome, tasks, clients, issuedAt, lastAuth, enterLogins,
                 hdrCall,
                 enterResponse, hreq>>

\* a caller asks the token manager of the latest __aenter__ for its headers
AuthHeaders ==
  /\ ctx # "new"
  /\ hdrCall' = auth_headers(token)
  /\ UNCHANGED <<now, ticks, token, expiresAt, maxRetries, ctx, session,
                 enterOutcome, tasks, task, clients, issuedAt, lastAuth,
                 enterLogins,
                 enterResponse, hreq>>

Next ==
  \/ Tick
  \/ Enter
  \/ EnterLogin
  \/ Exit
  \/ \E p \in tasks : Dispatch(p)
  \/ \E p \in tasks : LoginResponse(p)
  \/ \E p \in tasks : ResourceResponse(p)
  \/ \E p \in tasks : WakeUp(p)
  \/ \E p \in tasks : Finish(p)

Spec == Init /\ [][Next]_vars

\* every awaited login, request and sleep of a call completes
SpecLive ==
  /\ Init
  /\ [][Next]_vars
  /\ \A p \in Procs :
       /\ WF_vars(LoginResponse(p))
       /\ WF_vars(ResourceResponse(p))
       /\ WF_vars(WakeUp(p))

\* handle_request applied to each outcome of _handle_operation
InitHandler ==
  /\ now = 0
  /\ ticks = 0
  /\ token = "None"
  /\ expiresAt = NoExpiry
  /\ maxRetries \in 0..MaxRetriesBound
  /\ ctx = "new"
  /\ session = "none"
  /\ enterOutcome = NoError
  /\ tasks = {1}
  /\ task = [p \in Procs |-> IdleTask]
  /\ clients = [e \in Endpoints |-> [session |-> FALSE, token_manager |-> FALSE]]
  /\ issuedAt = NoExpiry
  /\ lastAuth = "none"
  /\ enterLogins = 0
  /\ hdrCall = NoHeadersCall
  /\ enterResponse = NoLogin
  /\ hreq \in HandlerCalls

HandleRequest ==
  /\ hreq.pc = "called"
  /\ hreq' = [hreq EXCEPT !.pc = "answered",
                          !.response = handle_request(hreq.raised, hreq.returned)]
  /\ UNCHANGED <<now, ticks, token, expiresAt, maxRetries, ctx, session,
                 enterOutcome, tasks, task, clients, issuedAt, lastAuth,
                 enterLogins, hdrCall, enterResponse>>

NextHandler == HandleRequest

SpecHandler == InitHandler /\ [][NextHandler]_vars

\* two tasks dispatch through the endpoint clients of one CephClient
InitConc ==
  /\ now = 0
  /\ ticks = 0
  /\ token = "None"
  /\ expiresAt = NoExpiry
  /\ maxRetries \in ConcRetries
  /\ ctx = "new"
  /\ session = "none"
  /\ enterOutcome = NoError
  /\ tasks = Procs
  /\ task = [p \in Procs |-> IdleTask]
  /\ clients = [e \in Endpoints |-> [session |-> FALSE, token_manager |-> FALSE]]
  /\ issuedAt = NoExpiry
  /\ lastAuth = "none"
  /\ enterLogins = 0
  /\ hdrCall = NoHeadersCall
  /\ enterResponse = NoLogin
  /\ hreq = NoHandlerCall

SpecConc == InitConc /\ [][Next]_vars

\* the token manager alone, with callers of get_auth_headers
NextHeaders ==
  \/ Tick
  \/ Enter
  \/ EnterLogin
  \/ Exit
  \/ AuthHeaders

SpecHeaders == Init /\ [][NextHeaders]_vars

TypeOK ==
  /\ now \in Nat
  /\ ticks \in 0..MaxTicks
  /\ token \in TokenFields
  /\ expiresAt \in Int
  /\ ctx \in {"new", "entering", "entered", "exited", "enterFailed"}
  /\ \A p \in Procs : task[p].pc \in {"idle", "login", "request", "sleep", "done"}
  /\ \A e \in Endpoints : clients[e] \in [session : BOOLEAN, token_manager : BOOLEAN]
  /\ issuedAt \in Int
  /\ lastAuth \in {"none", "ok", "failed"}
  /\ enterLogins \in 0..1
  /\ hdrCall.called \in BOOLEAN
  /\ enterResponse \in LoginResponses \cup {NoLogin}
  /\ hreq.pc \in {"none", "called", "answered"}

\* ======================================================================
\* Properties
\* ======================================================================

\* a token is held when the stored value is neither None nor empty
TokenHeld == token \notin {"None", ""}

\* the ttl a login response stands for
EffectiveTtl(r) == IF r.ttl = NoTtl THEN DefaultTtl ELSE r.ttl

\* step in which task p enters get_token from _make_request
GetTokenCalled(p) ==
  \/ task[p].pc = "idle" /\ task'[p].pc # "idle" /\ ctx = "entered" /\ maxRetries >= 1
  \/ task[p].pc = "sleep" /\ task'[p].pc # "sleep" /\ task[p].attempt + 1 < maxRetries

\* step in which get_token returns to task p and the request goes out
TokenPresented(p) == task[p].pc # "request" /\ task'[p].pc = "request"

\* the latest get_token call of task p failed after its login was answered
GetTokenFailed(p) == task[p].login # NoLogin /\ task[p].gtReturned = "None"

\* C1 (as claimed): every token returned by get_token is non-empty and, when
\* it is returned and put into the Authorization header, now is before
\* expiresAt - refreshBuffer, whatever ttl the login carried.
C1_Original ==
  [][\A p \in Procs :
       TokenPresented(p) =>
         /\ task'[p].gtReturned \notin {"None", ""}
         /\ task'[p].hdrToken = task'[p].gtReturned
         /\ expiresAt' # NoExpiry
         /\ now' < expiresAt' - RefreshBuffer]_vars

\* C1 (amended): every token returned by get_token is non-empty and is the
\* one put into the Authorization header; returned without a login it
\* satisfies now < expiresAt - refreshBuffer; returned after the login of
\* that call it is the token of that login with expiresAt = now + ttl, so
\* the buffered bound holds exactly when ttl > refreshBuffer.
C1_Amended ==
  [][\A p \in Procs :
       TokenPresented(p) =>
         /\ task'[p].gtReturned \notin {"None", ""}
         /\ task'[p].hdrToken = task'[p].gtReturned
         /\ task'[p].gtReturned = token'
         /\ expiresAt' # NoExpiry
         /\ task[p].pc # "login" => now' < expiresAt' - RefreshBuffer
         /\ task[p].pc = "login" =>
              /\ token' = task'[p].login.token
              /\ expiresAt' = now' + EffectiveTtl(task'[p].login)
              /\ (now' < expiresAt' - RefreshBuffer)
                   <=> (EffectiveTtl(task'[p].login) > RefreshBuffer)]_vars

\* a token whose ttl does not exceed the buffer has just been presented
C1_Witness ==
  \E p \in Procs :
    /\ task[p].pc = "request"
    /\ task[p].gtAuthCalls = 1
    /\ task[p].login.ttl \in {0, 60}
    /\ task[p].hdrToken = task[p].login.token
    /\ expiresAt = now + task[p].login.ttl

\* C2: when no token is held, or now >= expiresAt - refreshBuffer (boundary
\* included), the get_token call performs exactly one authenticate call
\* before it returns or fails.
C2_ExactlyOneAuthenticate ==
  [][\A p \in Procs :
       /\ (GetTokenCalled(p) /\ (~TokenHeld \/ now >= expiresAt - RefreshBuffer))
            => (task'[p].pc = "login" /\ task'[p].gtAuthCalls = 1)
       /\ (task[p].pc = "login" /\ task'[p].pc # "login")
            => (task'[p].pc \in {"request", "done"} /\ task'[p].gtAuthCalls = 1)]_vars

\* a login is in flight that was started exactly at the buffered expiry
C2_Witness ==
  \E p \in Procs :
    /\ task[p].pc = "login"
    /\ task[p].gtAuthCalls = 1
    /\ TokenHeld
    /\ now = expiresAt - RefreshBuffer

\* C3: while a token is held and now < expiresAt - refreshBuffer, a
\* get_token call performs no authenticate call, returns the stored token
\* and leaves token and expiresAt unchanged.
C3_NoAuthenticateWhileValid ==
  [][\A p \in Procs :
       (GetTokenCalled(p) /\ TokenHeld /\ expiresAt # NoExpiry
          /\ now < expiresAt - RefreshBuffer)
         => /\ task'[p].pc = "request"
            /\ task'[p].gtAuthCalls = 0
            /\ task'[p].gtReturned = token
            /\ task'[p].hdrToken = token
            /\ token' = token
            /\ expiresAt' = expiresAt]_vars

\* a second get_token call of one dispatch returned the stored token
\* without a login
C3_Witness ==
  \E p \in Procs :
    /\ task[p].pc = "request"
    /\ task[p].attempt >= 1
    /\ task[p].gtAuthCalls = 0
    /\ task[p].gtReturned = token
    /\ now < expiresAt - RefreshBuffer

\* C4: when get_token fails inside _make_request, the dispatch is over with
\* that error: no request went out in that attempt, no sleep followed it and
\* no further attempt is made; rejected credentials (400, 401) and a
\* transport failure of the login give a CephAuthenticationError.
C4_AuthFailureNotRetried ==
  \A p \in Procs :
    GetTokenFailed(p) =>
      /\ task[p].pc = "done"
      /\ task[p].outcome.cls \notin {"None", "CephAPIError"}
      /\ task[p].nreq = task[p].attempt
      /\ Len(task[p].sleeps) = task[p].attempt
      /\ (task[p].login.net \/ task[p].login.status \in {400, 401})
           => task[p].outcome.cls = "CephAuthenticationError"
      /\ task[p].login.net => task[p].outcome.cause = task[p].login.err

\* the login of a later attempt was rejected while attempts were left
C4_Witness ==
  \E p \in Procs :
    /\ task[p].pc = "done"
    /\ task[p].attempt >= 1
    /\ task[p].attempt < maxRetries - 1
    /\ task[p].login.status = 401
    /\ task[p].outcome.cls = "CephAuthenticationError"

\* the sleeps of a dispatch that retried n - 1 times: 1, 2, ..., 2^(n-2)
Backoffs(n) == [i \in 1..(n - 1) |-> 2 ^ (i - 1)]

\* task p has finished a dispatch in which every attempt made was answered
\* by the resource request
EveryAttemptAnswered(p) ==
  /\ task[p].pc = "done"
  /\ maxRetries >= 1
  /\ task[p].nreq = task[p].attempt + 1

\* C5: with every attempt answered by a status >= 500 and maxRetries = n >= 1
\* the dispatch makes exactly n attempts, sleeps 1, 2, ..., 2^(n-2) seconds
\* between them and fails with ServerError carrying the last status code.
C5_ServerErrorSchedule ==
  \A p \in Procs :
    (EveryAttemptAnswered(p) /\ task[p].only5xx) =>
      /\ task[p].nreq = maxRetries
      /\ task[p].sleeps = Backoffs(maxRetries)
      /\ task[p].outcome = CephAPIError("ServerError", task[p].last.status)

\* three attempts answered by 5xx, slept 1 s then 2 s, ServerError
C5_Witness ==
  \E p \in Procs :
    /\ task[p].pc = "done"
    /\ maxRetries = 3
    /\ task[p].only5xx
    /\ task[p].nreq = 3
    /\ task[p].sleeps = <<1, 2>>
    /\ task[p].outcome.kind = "ServerError"
    /\ task[p].outcome.status = 503

\* the kind the claim assigns to a status that is neither 200 nor >= 500
PermanentKind(status) ==
  CASE status = 401 -> "Unauthorized"
    [] status = 403 -> "Forbidden"
    [] status = 404 -> "NotFound"
    [] OTHER -> "Unexpected"

\* C6: a response whose status is neither 200 nor >= 500 ends the dispatch
\* at once with kind Unauthorized (401), Forbidden (403), NotFound (404,
\* with the endpoint) or Unexpected (any other), carrying the status code,
\* with no sleep after that attempt and no further attempt.
C6_PermanentFailuresFailFast ==
  \A p \in Procs :
    (task[p].last # NoResponse /\ ~task[p].last.net
       /\ task[p].last.status # 200 /\ task[p].last.status < 500) =>
      /\ task[p].pc = "done"
      /\ task[p].outcome.cls = "CephAPIError"
      /\ task[p].outcome.kind = PermanentKind(task[p].last.status)
      /\ task[p].outcome.status = task[p].last.status
      /\ task[p].outcome.endpoint <=> (task[p].last.status = 404)
      /\ Len(task[p].sleeps) = task[p].attempt
      /\ task[p].nreq = task[p].attempt + 1

\* a 404 on the second of three possible attempts ended the dispatch
C6_Witness ==
  \E p \in Procs :
    /\ task[p].pc = "done"
    /\ maxRetries = 3
    /\ task[p].attempt = 1
    /\ task[p].last.status = 404
    /\ task[p].outcome.kind = "NotFound"

\* C7: with every attempt failing at transport level and maxRetries = n >= 1
\* the dispatch makes exactly n attempts, sleeps 2^attempt seconds after each
\* attempt but the last and fails with NetworkFailure wrapping the last
\* transport error.
C7_NetworkFailureSchedule ==
  \A p \in Procs :
    (EveryAttemptAnswered(p) /\ task[p].onlyNet) =>
      /\ task[p].nreq = maxRetries
      /\ task[p].sleeps = Backoffs(maxRetries)
      /\ task[p].outcome =
           [CephAPIError("NetworkFailure", 0) EXCEPT !.cause = task[p].last.err]

\* three attempts failed at transport level, the last one by a timeout
C7_Witness ==
  \E p \in Procs :
    /\ task[p].pc = "done"
    /\ maxRetries = 3
    /\ task[p].onlyNet
    /\ task[p].nreq = 3
    /\ task[p].sleeps = <<1, 2>>
    /\ task[p].outcome.kind = "NetworkFailure"
    /\ task[p].outcome.cause = "ReadTimeout"

\* C8 (as claimed): no dispatch ends with RetriesExhausted, for every
\* configured integer max_retries and every sequence of responses.
C8_NeverRetriesExhausted ==
  \A p \in Procs : task[p].outcome.kind # "RetriesExhausted"

\* step in which the login awaited by task p is answered
LoginAnswered(p) == task[p].pc = "login" /\ task'[p].pc # "login"

\* C9 (as claimed): authenticate succeeds on every 2xx login response that
\* contains a token field: it stores that token and sets
\* expiresAt = now + ttl.
C9_Original ==
  [][\A p \in Procs :
       (LoginAnswered(p) /\ ~task'[p].login.net /\ task'[p].login.parses
          /\ task'[p].login.status >= 200 /\ task'[p].login.status < 300
          /\ task'[p].login.token \notin {"None", ""})
         => /\ task'[p].pc = "request"
            /\ token' = task'[p].login.token
            /\ expiresAt' = now + EffectiveTtl(task'[p].login)]_vars

\* C9 (amended): authenticate succeeds on every 201 login response that
\* contains a non-empty token field: it stores that token and sets
\* expiresAt = now + ttl; a response with any other 2xx status does not
\* succeed and stores nothing.
C9_Amended ==
  [][\A p \in Procs :
       LET r == task'[p].login
       IN /\ (LoginAnswered(p) /\ ~r.net /\ r.parses /\ r.status = 201
                /\ r.token \notin {"None", ""})
               => /\ task'[p].pc = "request"
                  /\ task'[p].gtReturned = r.token
                  /\ token' = r.token
                  /\ expiresAt' = now + EffectiveTtl(r)
          /\ (LoginAnswered(p) /\ ~r.net /\ r.status # 201
                /\ r.status >= 200 /\ r.status < 300)
               => /\ task'[p].pc = "done"
                  /\ task'[p].outcome.cls # "None"
                  /\ token' = token
                  /\ expiresAt' = expiresAt]_vars

\* a 201 login at a later time stored its token with expiresAt = now + 350
C9_Witness ==
  \E p \in Procs :
    /\ task[p].pc = "request"
    /\ task[p].login.status = 201
    /\ task[p].login.ttl = 350
    /\ now > 0
    /\ token = task[p].login.token
    /\ expiresAt = now + 350

\* C10 (as claimed): every failing outcome of authenticate is an
\* AuthenticationError; for a status other than 2xx, 400 and 401 it carries
\* the status code, and the server's detail only when the body parses.
C10_EveryLoginFailureIsAuthenticationError ==
  \A p \in Procs :
    (GetTokenFailed(p) /\ task[p].pc = "done") =>
      /\ task[p].outcome.cls = "CephAuthenticationError"
      /\ (~task[p].login.net /\ task[p].login.status \notin {201, 400, 401})
           => /\ task[p].outcome.status = task[p].login.status
              /\ task[p].outcome.detail =>
                   (task[p].login.parses /\ task[p].login.detail)

\* the login awaited by task p has just been answered by a 201 response
\* with a token, so _authenticate succeeded
LoginSucceeded(p) ==
  /\ LoginAnswered(p)
  /\ ~task'[p].login.net
  /\ task'[p].login.parses
  /\ task'[p].login.status = 201
  /\ task'[p].login.token \notin {"None", ""}

\* C11: a successful authenticate at time now sets expiresAt = now + 28800
\* when the response has no ttl field and expiresAt = now + T when it has
\* ttl = T.
C11_ExpiryFromTtl ==
  [][\A p \in Procs :
       LoginSucceeded(p) =>
         /\ task'[p].login.ttl = NoTtl => expiresAt' = now + 28800
         /\ \A T \in TtlFields \ {NoTtl} :
              task'[p].login.ttl = T => expiresAt' = now + T]_vars

\* a login at now = 50 without a ttl field stored expiresAt = 28850
C11_Witness ==
  \E p \in Procs :
    /\ task[p].pc = "request"
    /\ task[p].login.status = 201
    /\ task[p].login.ttl = NoTtl
    /\ task[p].gtReturned = token
    /\ now = 50
    /\ expiresAt = 28850
\* C12: get_auth_headers fails with CephAuthenticationError whenever no token
\* is held; otherwise it returns Authorization = "Bearer " + the stored token
\* with Content-Type and User-Agent; it changes neither token nor expiresAt.
C12_AuthHeadersContract ==
  [][hdrCall' # hdrCall =>
       /\ ~TokenHeld =>
            /\ hdrCall'.err.cls = "CephAuthenticationError"
            /\ hdrCall'.headers = NoHeaders
       /\ TokenHeld =>
            /\ hdrCall'.err = NoError
            /\ hdrCall'.headers.Authorization = "Bearer " \o token
            /\ hdrCall'.headers.ContentType = "application/json"
            /\ hdrCall'.headers.UserAgent # ""
       /\ token' = token
       /\ expiresAt' = expiresAt]_vars

C12_Witness ==
  /\ ctx = "entered"
  /\ token = "t1"
  /\ hdrCall.called
  /\ hdrCall.err = NoError
  /\ hdrCall.headers.Authorization = "Bearer t1"
C14_ShortTtlAlwaysRefreshes ==
  [][\A p \in Procs :
       /\ GetTokenCalled(p)
       /\ issuedAt # NoExpiry
       /\ expiresAt - issuedAt <= 300
       => task'[p].pc = "login"]_vars

C14_Witness ==
  \E p \in Procs :
    /\ TokenHeld
    /\ issuedAt = 0
    /\ expiresAt = 60
    /\ now = 50
    /\ task[p].pc = "login"
\* C15: within one _make_request call the loop variable advances by one, and
\* only when the sleep after the previous attempt has completed; a request
\* is sent only while no request of the call is in flight, at most one per
\* attempt.
C15_AttemptsSequential ==
  [][\A p \in Procs :
       /\ task'[p].attempt > task[p].attempt =>
            /\ task[p].pc = "sleep"
            /\ task'[p].attempt = task[p].attempt + 1
            /\ Len(task[p].sleeps) = task'[p].attempt
       /\ task'[p].nreq > task[p].nreq =>
            /\ task[p].pc \in {"idle", "login", "sleep"}
            /\ task'[p].pc = "request"
            /\ task'[p].nreq = task[p].nreq + 1
            /\ task'[p].nreq <= task'[p].attempt + 1
       /\ task'[p].pc = "sleep" => Len(task'[p].sleeps) = task'[p].attempt + 1]_vars

C15_Witness ==
  \E p \in Procs :
    /\ task[p].pc = "request"
    /\ task[p].attempt = 2
    /\ task[p].nreq = 3
    /\ task[p].sleeps = <<1, 2>>
\* C16: refreshes are not serialized: while one task's login is in flight,
\* another task that calls get_token and finds the token missing or past
\* its buffered expiry can start a login of its own.
C16_RefreshesNotSerialized ==
  \A p \in tasks : \A q \in tasks \ {p} :
    /\ task[q].pc = "login"
    /\ ~TokenHeld \/ now >= expiresAt - RefreshBuffer
    => /\ task[p].pc = "idle" /\ maxRetries >= 1 =>
            ENABLED (Dispatch(p) /\ task'[p].pc = "login")
       /\ task[p].pc = "sleep" /\ task[p].attempt + 1 < maxRetries =>
            ENABLED (WakeUp(p) /\ task'[p].pc = "login")

C16_Witness ==
  /\ task[1].pc = "login"
  /\ task[2].pc = "login"
  /\ task[1].gtAuthCalls = 1
  /\ task[2].gtAuthCalls = 1
\* C17 (as claimed): every _make_request call that terminates returns the
\* parsed JSON payload or raises CephAPIError or its subclass
\* CephAuthenticationError, whatever the statuses and bodies it received.
C17_OnlyAPIErrorEscapes ==
  \A p \in Procs :
    task[p].pc = "done" =>
      \/ task[p].outcome = Payload
      \/ task[p].outcome.cls \in {"CephAPIError", "CephAuthenticationError"}
\* C18: __aenter__ performs exactly one login and leaves all six endpoint
\* clients holding the shared session and the shared token manager; a call
\* through any endpoint client of the entered context, made while
\* now < expiresAt - 300, sends its request with the manager's token and
\* starts no login.
C18_OneLoginSharedByAllEndpoints ==
  [][/\ ctx' # "new" => enterLogins' = 1
     /\ ctx' = "entered" =>
          \A e \in Endpoints : clients'[e].session /\ clients'[e].token_manager
     /\ \A p \in Procs :
          /\ task[p].pc = "idle" /\ task'[p].pc # "idle"
          /\ ctx = "entered" /\ maxRetries >= 1
          /\ TokenHeld /\ now < expiresAt - RefreshBuffer
          => /\ task'[p].pc = "request"
             /\ task'[p].hdrToken = token
             /\ task'[p].gtAuthCalls = 0
             /\ token' = token]_vars

C18_Witness ==
  /\ ctx = "entered"
  /\ enterLogins = 1
  /\ \A e \in Endpoints : clients[e].session /\ clients[e].token_manager
  /\ TokenHeld
  /\ \E p \in Procs :
       /\ task[p].pc = "request"
       /\ task[p].gtAuthCalls = 0
       /\ task[p].hdrToken = token
\* C19 (as claimed): inside an entered context the client's session is set;
\* before entry and after exit the session reference is None on the client
\* and on every endpoint client, and a call through an endpoint client then
\* fails with CephAPIError "Client not properly initialized" with no login
\* and no request.
C19_SessionNoneOutsideContext ==
  /\ [](ctx = "entered" => session = "open")
  /\ [](ctx \in {"new", "exited"} =>
          /\ session = "none"
          /\ \A e \in Endpoints : ~clients[e].session)
  /\ [][\A p \in Procs :
          /\ ctx \in {"new", "exited"}
          /\ task[p].pc = "idle" /\ task'[p].pc # "idle"
          => /\ task'[p].pc = "done"
             /\ task'[p].outcome = CephAPIError("NotInitialized", 0)
             /\ task'[p].nreq = 0
             /\ task'[p].gtAuthCalls = 0
             /\ task'[p].login = NoLogin]_vars
ResourceAnswered(p) == task[p].pc = "request" /\ task'[p].pc # "request"

\* C21: the sleep after failed attempt number `attempt`, when it is not the
\* last, is 2^attempt seconds whether the attempt ended in a 5xx status or
\* in a transport error; no sleep follows the last attempt, a 200 response
\* or a failure that is not transient, and no sleep is recorded elsewhere.
C21_BackoffAttemptIndexed ==
  [][\A p \in Procs :
       /\ ResourceAnswered(p) =>
            LET r == task'[p].last
                transient == r.net \/ r.status >= 500
                k == task[p].attempt
            IN /\ task'[p].attempt = k
               /\ IF transient /\ k < maxRetries - 1
                    THEN /\ task'[p].pc = "sleep"
                         /\ task'[p].sleeps = Append(task[p].sleeps, 2 ^ k)
                    ELSE /\ task'[p].pc = "done"
                         /\ task'[p].sleeps = task[p].sleeps
       /\ (~ResourceAnswered(p) /\ task'[p].pc # "idle") =>
            task'[p].sleeps = task[p].sleeps]_vars

\* a 5xx then a transport error, each followed by its attempt-indexed sleep
C21_Witness ==
  \E p \in Procs :
    /\ task[p].pc = "sleep"
    /\ task[p].attempt = 1
    /\ task[p].sleeps = <<1, 2>>
    /\ task[p].last.net
    /\ ~task[p].onlyNet
    /\ ~task[p].only5xx
\* C22: whatever the responses and transport errors, one _make_request call
\* sends at most max_retries resource requests (the PUT of a daemon action
\* is one such call).
C22_AtMostMaxRetriesRequests ==
  \A p \in Procs : task[p].nreq <= maxRetries

\* the bound is reached by a call whose failures were of both kinds
C22_Witness ==
  \E p \in Procs :
    /\ task[p].pc = "done"
    /\ maxRetries = 3
    /\ task[p].nreq = maxRetries
    /\ ~task[p].only5xx
    /\ ~task[p].onlyNet
    /\ task[p].outcome.cls = "CephAPIError"
\* C23: _make_request never writes the token or its expiry: they change only
\* when a login is answered or a new manager is created, so every resource
\* response and transport error leaves them as they were; after a 401 a
\* call made before the buffered expiry sends the same token with no login.
C23_DispatcherLeavesTokenAlone ==
  [][/\ (token' # token \/ expiresAt' # expiresAt) =>
          \/ \E p \in Procs : LoginAnswered(p)
          \/ ctx = "entering"
          \/ ctx' = "entering"
     /\ \A p \in Procs : ResourceAnswered(p) =>
          token' = token /\ expiresAt' = expiresAt
     /\ \A p \in Procs : \A q \in Procs :
          /\ task[q].pc = "done" /\ ~task[q].last.net /\ task[q].last.status = 401
          /\ task[q].hdrToken = token
          /\ task[p].pc = "idle" /\ task'[p].pc # "idle"
          /\ ctx = "entered" /\ maxRetries >= 1
          /\ now < expiresAt - RefreshBuffer
          => /\ task'[p].pc = "request"
             /\ task'[p].hdrToken = task[q].hdrToken
             /\ task'[p].gtAuthCalls = 0]_vars

\* one call was answered 401; the next one is in flight with the same token
C23_Witness ==
  \E p \in Procs : \E q \in Procs :
    /\ task[q].pc = "done" /\ task[q].last.status = 401
    /\ task[p].pc = "request" /\ task[p].gtAuthCalls = 0
    /\ task[p].nreq = 1
    /\ task[p].hdrToken = task[q].hdrToken
    /\ task[p].hdrToken = token
    /\ now < expiresAt - RefreshBuffer
\* C24 (as claimed): an _authenticate that fails, whatever the failure,
\* leaves the stored token and expiresAt as they were before the call.
C24_FailedLoginLeavesTokenAndExpiry ==
  [][\A p \in Procs :
       (LoginAnswered(p) /\ ~LoginSucceeded(p)) =>
         /\ token' = token
         /\ expiresAt' = expiresAt]_vars
GetTokenReturned(p) ==
  /\ task[p].pc \in {"idle", "sleep", "login"}
  /\ task'[p] # task[p]
  /\ task'[p].gtReturned \notin {"None", ""}

\* C26: in every attempt, once get_token has returned, get_auth_headers does
\* not fail and the Authorization header carries the token get_token
\* returned, also while another task's login, succeeding or failing, is
\* answered in between attempts; the request leaves in the same step.
C26_HeadersCarryReturnedToken ==
  /\ [](\A p \in Procs :
          /\ task[p].outcome.kind # "NoTokenAvailable"
          /\ task[p].pc = "request" =>
               /\ task[p].hdrToken = task[p].gtReturned
               /\ task[p].hdrToken \notin {"None", ""})
  /\ [][\A p \in Procs :
          GetTokenReturned(p) =>
            /\ task'[p].pc = "request"
            /\ task'[p].outcome = NoError
            /\ task'[p].hdrToken = task'[p].gtReturned
            /\ task'[p].hdrToken = token']_vars

\* task 1 sent its request with t1; meanwhile task 2's refresh failed and
\* wiped the stored token
C26_Witness ==
  /\ task[1].pc = "request"
  /\ task[1].gtReturned = "t1"
  /\ task[1].hdrToken = "t1"
  /\ task[2].pc = "done"
  /\ task[2].login.status = 201
  /\ task[2].outcome.kind = "NoTokenReceived"
  /\ token = "None"
\* the response a read operation of a domain client gives to the handler
\* when its _make_request ended with outcome e
ReadOperationResponse(e) ==
  handle_request(domain_method(e), [success |-> TRUE, error_code |-> "None"])

\* C27 (as claimed): a CephAuthenticationError raised by the token manager
\* during the _make_request of a domain-client read operation is answered
\* by handle_request with AUTHENTICATION_ERROR, not CEPH_API_ERROR.
C27_AuthErrorKeepsItsClass ==
  \A p \in Procs :
    (task[p].pc = "done" /\ task[p].outcome.cls = "CephAuthenticationError") =>
      ReadOperationResponse(task[p].outcome).error_code = "AUTHENTICATION_ERROR"
\* C28 (as claimed): once control has left the `async with` statement, by
\* __aexit__ after the body or by an exception out of __aenter__, the
\* session that __aenter__ opened is closed.
C28_SessionClosedOnLeaving ==
  ctx \in {"exited", "enterFailed"} => session = "closed"
\* C29: a _make_request call that is waiting for a login, for a response or
\* in a backoff sleep eventually returns or raises, whatever max_retries is
\* and whatever the answers are, provided every await completes.
C29_DispatchTerminates ==
  \A p \in Procs :
    (task[p].pc \in {"login", "request", "sleep"}) ~> (task[p].pc = "done")

\* a call that was retried twice and then returned the payload
C29_Witness ==
  \E p \in Procs :
    /\ task[p].pc = "done"
    /\ task[p].attempt = 2
    /\ task[p].sleeps = <<1, 2>>
    /\ task[p].outcome = Payload
\* the error code the claim assigns to an exception of class cls
ClaimedErrorCode(cls) ==
  CASE cls = "CephAuthenticationError" -> "AUTHENTICATION_ERROR"
    [] cls = "CephAPIError" -> "CEPH_API_ERROR"
    [] cls \in {"ValueError", "JSONDecodeError"} -> "VALIDATION_ERROR"
    [] OTHER -> "INTERNAL_ERROR"

====
